---- MODULE Spec2Model ----
(***************************************************************************)
(* Model of jochemvankempen/demos-data-science:                            *)
(*   animj.py        def_lines, update_lines, update_lines_counter         *)
(*   matlabimport.py load_data, load_trialdata, check_filename,            *)
(*                   import_data                                           *)
(* Two independent components, each with its own specification:           *)
(*   SpecAnim  the line handles of one animation and the calls on them    *)
(*   Spec      one call of load_data or load_trialdata on one input       *)
(***************************************************************************)
EXTENDS Integers, Sequences, FiniteSets, TLC

VARIABLES
    plotdata,   \* animj: the (numlines, numdimensions, numsamples) array of the caller
    lines,      \* animj: the caller's list of line/text objects
    call,       \* animj: the last call, its arguments and how it ended
    trace,      \* animj: the method calls the last call made on the objects, in order
    loadfilename,    \* matlabimport: the argument of load_data / load_trialdata
    variables2load,  \* matlabimport: load_data's *variables2load
    world,           \* matlabimport: the file system and the network the call meets
    pc,              \* matlabimport: "start" before the call, "done" after it
    result           \* matlabimport: how the call ended and what it returned

animvars == <<plotdata, lines, call, trace>>
loadvars == <<loadfilename, variables2load, world, pc, result>>
vars == <<plotdata, lines, call, trace, loadfilename, variables2load, world, pc, result>>

\* Python's None
None == "None"

\* numsamples=None, and numsamples=w as <<w>>
NoWindow == <<>>

Min(a, b) == IF a <= b THEN a ELSE b
Max(a, b) == IF a >= b THEN a ELSE b

(***************************************************************************)
(* Python sequence indexing and slicing                                    *)
(***************************************************************************)

\* a slice that also takes the element at its upper bound
PySliceInclusive(seq, lo, hi) ==
    LET n == Len(seq)
        l == IF lo < 0 THEN Max(lo + n, 0) ELSE Min(lo, n)
        h == IF hi < 0 THEN Max(hi + 1 + n, 0) ELSE Min(hi + 1, n)
    IN  IF l < h THEN SubSeq(seq, l + 1, h) ELSE <<>>

\* seq[lo:hi] with integer bounds: a negative bound counts from the end, and
\* both are clamped to 0..len(seq)
PySlice(seq, lo, hi) ==
    LET n == Len(seq)
        l == IF lo < 0 THEN Max(lo + n, 0) ELSE Min(lo, n)
        h == IF hi < 0 THEN Max(hi + n, 0) ELSE Min(hi, n)
    IN  IF l < h THEN SubSeq(seq, l + 1, h) ELSE <<>>

\* whether seq[i] raises IndexError
PyIndexError(seq, i) == i >= Len(seq) \/ i < -Len(seq)

\* seq[i] for an index that is in range
PyIndex(seq, i) == IF i < 0 THEN seq[i + Len(seq) + 1] ELSE seq[i + 1]

(***************************************************************************)
(* animj.py                                                                *)
(***************************************************************************)

MaxLines == 2      \* numlines of the array is 0..MaxLines
MaxSamples == 2    \* numsamples is 1..MaxSamples

\* numdimensions: the two the module plots, and one on either side
Dims == {1, 2, 3, 4}

\* plotdata[i][d][t]: every sample is distinguishable
Bundle(n, d, t) == [i \in 1..n |-> [k \in 1..d |-> [s \in 1..t |-> <<i, k, s>>]]]

\* numpy.shape(plotdata)[1]; an array without lines keeps its shape, which the
\* model reads from the call's record
NumDims(shape) == shape[2]

\* numpy.shape(plotdata)
Shape == { <<n, d, t>> : n \in 0..MaxLines, d \in Dims, t \in 1..MaxSamples }

\* a plot object as the calls of this module see it: the data of its last
\* set_data, set_3d_properties, set_marker and set_text
NewObject(xy, z) == [xy |-> xy, z |-> z, marker |-> None, text |-> <<>>]

\* ax.text(...): an object the caller creates to hold the counter
TextObject == NewObject(<<>>, <<>>)

\* data[rows, lo:hi] of one line's (numdimensions, numsamples) array
Cols(data, rows, lo, hi) == [r \in 1..Len(rows) |-> PySlice(data[rows[r]], lo, hi)]

\* def_lines: one object per line showing the first sample, or ValueError
def_lines(pd, shape) ==
    LET num_dims == NumDims(shape)
    IN  IF num_dims = 2
        THEN [raised |-> None,
              lines |-> [i \in 1..Len(pd) |->
                            NewObject(Cols(pd[i], <<1, 2>>, 0, 1), <<>>)]]
        ELSE IF num_dims = 3
        THEN [raised |-> None,
              lines |-> [i \in 1..Len(pd) |->
                            NewObject(Cols(pd[i], <<1, 2>>, 0, 1),
                                      PySlice(pd[i][3], 0, 1))]]
        ELSE [raised |-> "ValueError", lines |-> <<>>]

\* the lower bound of the slice: 0 without numsamples, num-numsamples with it
SliceLo(num, numsamples) == IF numsamples = NoWindow THEN 0 ELSE num - numsamples[1]

\* the body of the loop over zip(lines, plotdata): the calls made on one object
LineCalls(i, data, num_dims, num, numsamples) ==
    LET lo == SliceLo(num, numsamples)
    IN  (IF num_dims = 2
         THEN << [obj |-> i, method |-> "set_data",
                  arg |-> Cols(data, <<1, 2>>, lo, num)] >>
         ELSE IF num_dims = 3
         THEN << [obj |-> i, method |-> "set_data",
                  arg |-> Cols(data, <<1, 2>>, lo, num)],
                 [obj |-> i, method |-> "set_3d_properties",
                  arg |-> PySlice(data[3], lo, num)] >>
         ELSE << >>)
        \o << [obj |-> i, method |-> "set_marker", arg |-> "o"] >>

\* the calls of the whole loop, in order: zip stops at the shorter of the two
RECURSIVE LoopCalls(_, _, _, _, _, _)
LoopCalls(i, ls, pd, num_dims, num, numsamples) ==
    IF i > Min(Len(ls), Len(pd)) THEN <<>>
    ELSE LineCalls(i, pd[i], num_dims, num, numsamples)
         \o LoopCalls(i + 1, ls, pd, num_dims, num, numsamples)

\* what one method call does to the object it is made on
Apply(obj, c) ==
    IF c.method = "set_data" THEN [obj EXCEPT !.xy = c.arg]
    ELSE IF c.method = "set_3d_properties" THEN [obj EXCEPT !.z = c.arg]
    ELSE IF c.method = "set_marker" THEN [obj EXCEPT !.marker = c.arg]
    ELSE [obj EXCEPT !.text = c.arg]

\* the objects after a sequence of method calls
RECURSIVE ApplyAll(_, _)
ApplyAll(ls, calls) ==
    IF calls = <<>> THEN ls
    ELSE ApplyAll([ls EXCEPT ![Head(calls).obj] = Apply(ls[Head(calls).obj], Head(calls))],
                  Tail(calls))

\* update_lines: never raises, returns the list it was given
update_lines(num, pd, shape, ls, numsamples) ==
    LET calls == LoopCalls(1, ls, pd, NumDims(shape), num, numsamples)
    IN  [raised |-> None, calls |-> calls, lines |-> ApplyAll(ls, calls)]

\* data_counter: 'the samples iterated over (e.g. time), of same length as plotdata'
DataCounter(shape) == [s \in 1..shape[3] |-> 10 * (s - 1)]

\* text_counter % value
Format(text_counter, value) == <<text_counter, value>>

\* update_lines_counter: the loop of update_lines, then set_text on lines[len(lines)-1]
update_lines_counter(num, pd, shape, ls, text_counter, data_counter, numsamples) ==
    LET calls == LoopCalls(1, ls, pd, NumDims(shape), num, numsamples)
        idx_text == Len(ls) - 1
    IN  IF PyIndexError(ls, idx_text) \/ PyIndexError(data_counter, num)
        THEN [raised |-> "IndexError", calls |-> calls, lines |-> ApplyAll(ls, calls)]
        ELSE LET all == calls \o
                        << [obj |-> idx_text + 1, method |-> "set_text",
                            arg |-> Format(text_counter, PyIndex(data_counter, num))] >>
             IN  [raised |-> None, calls |-> all, lines |-> ApplyAll(ls, all)]

NoCall == [op |-> "none", num |-> 0, numsamples |-> NoWindow, raised |-> None]

\* the frame indices and window lengths the caller passes
Nums == 0..(MaxSamples + 1)
Windows == {NoWindow} \cup { <<w>> : w \in 0..MaxSamples }

IdleLoad ==
    /\ loadfilename = <<>>
    /\ variables2load = <<>>
    /\ world = None
    /\ pc = "idle"
    /\ result = None

\* the caller holds an array and, as yet, no plot objects
InitAnim ==
    /\ plotdata \in { <<s, Bundle(s[1], s[2], s[3])>> : s \in Shape }
    /\ lines = <<>>
    /\ call = NoCall
    /\ trace = <<>>
    /\ IdleLoad

\* no frame has been drawn yet: the caller is still building its list
Setup == call.op \in {"none", "def_lines", "append"}

\* the caller calls def_lines(ax, plotdata)
DefLines ==
    /\ call.op = "none"
    /\ LET r == def_lines(plotdata[2], plotdata[1])
       IN  /\ lines' = IF r.raised = None THEN r.lines ELSE lines
           /\ call' = [op |-> "def_lines", num |-> 0, numsamples |-> NoWindow,
                       raised |-> r.raised]
    /\ trace' = <<>>
    /\ UNCHANGED <<plotdata>>
    /\ UNCHANGED loadvars

\* the caller appends an object of its own (ax.text(...)) to its list, up to two
\* more objects than the array has lines
AppendText ==
    /\ Setup
    /\ Len(lines) < plotdata[1][1] + 2
    /\ lines' = Append(lines, TextObject)
    /\ call' = [op |-> "append", num |-> 0, numsamples |-> NoWindow, raised |-> None]
    /\ trace' = <<>>
    /\ UNCHANGED <<plotdata>>
    /\ UNCHANGED loadvars

\* the animation calls update_lines(num, plotdata, lines, numsamples)
UpdateLines ==
    /\ \E num \in Nums, numsamples \in Windows :
        LET r == update_lines(num, plotdata[2], plotdata[1], lines, numsamples)
        IN  /\ lines' = r.lines
            /\ trace' = r.calls
            /\ call' = [op |-> "update_lines", num |-> num,
                        numsamples |-> numsamples, raised |-> r.raised]
    /\ UNCHANGED <<plotdata>>
    /\ UNCHANGED loadvars

\* the animation calls update_lines_counter(num, plotdata, lines, text_counter,
\* data_counter, numsamples)
UpdateLinesCounter ==
    /\ \E num \in Nums, numsamples \in Windows :
        LET r == update_lines_counter(num, plotdata[2], plotdata[1], lines, "t=%d",
                                      DataCounter(plotdata[1]), numsamples)
        IN  /\ lines' = r.lines
            /\ trace' = r.calls
            /\ call' = [op |-> "update_lines_counter", num |-> num,
                        numsamples |-> numsamples, raised |-> r.raised]
    /\ UNCHANGED <<plotdata>>
    /\ UNCHANGED loadvars

NextAnim ==
    \/ DefLines
    \/ AppendText
    \/ UpdateLines
    \/ UpdateLinesCounter

SpecAnim == InitAnim /\ [][NextAnim]_vars

(***************************************************************************)
(* animj.py: the claims                                                    *)
(***************************************************************************)

NumLines == plotdata[1][1]
NumSamples == plotdata[1][3]

\* the objects the last call made a method call of the set `methods` on
Touched(methods) == { trace[k].obj : k \in { j \in 1..Len(trace) : trace[j].method \in methods } }

LineMethods == {"set_data", "set_3d_properties", "set_marker"}

\* samples [a, b) of dimension d of line i, as the array names them
Samples(i, d, a, b) == [k \in 1..(b - a) |-> <<i, d, a + k>>]

\* C2 (as claimed): update_lines on an array whose numdimensions is neither 2 nor 3
\* raises a dimensionality error and calls no method (set_data, set_3d_properties,
\* set_marker) on any object; stated for the calls that pair an object with a line.
C2_BadDimsRaisesAndTouchesNothing ==
    (/\ call.op = "update_lines"
     /\ NumDims(plotdata[1]) \notin {2, 3}
     /\ Min(Len(lines), NumLines) >= 1)
        => (call.raised = "ValueError" /\ trace = <<>>)

\* C3 (as claimed): update_lines_counter raises an index error unless
\* len(lines) = numlines + 1; when it is, exactly the first numlines objects get
\* line updates and only the last object gets set_text; stated for the frame
\* indices data_counter has a value for.
C3_CounterNeedsOneExtraObject ==
    (call.op = "update_lines_counter" /\ call.num \in 0..(NumSamples - 1))
        => IF Len(lines) # NumLines + 1
           THEN call.raised = "IndexError"
           ELSE /\ call.raised = None
                /\ Touched(LineMethods) = 1..NumLines
                /\ Touched({"set_text"}) = {Len(lines)}

\* C10: after update_lines with a frame index f in 0..numsamples on an array of 2
\* or 3 dimensions, every object paired with a line shows samples [0, f) of that
\* line without a window and [f-w, f) with a window w <= f, the depth data of a
\* 3-D line over the same range, whatever calls came before.
C10_DisplayedRange ==
    (/\ call.op = "update_lines"
     /\ NumDims(plotdata[1]) \in {2, 3}
     /\ call.num \in 0..NumSamples
     /\ (call.numsamples # NoWindow => call.numsamples[1] <= call.num))
        => LET f == call.num
               a == IF call.numsamples = NoWindow THEN 0 ELSE f - call.numsamples[1]
           IN  \A i \in 1..Min(Len(lines), NumLines) :
                   /\ lines[i].xy = <<Samples(i, 1, a, f), Samples(i, 2, a, f)>>
                   /\ NumDims(plotdata[1]) = 3 => lines[i].z = Samples(i, 3, a, f)

\* C10 witness: a 3-D array of two lines, a window of one sample at frame 2, after
\* an earlier update_lines_counter call left its text on the third object.
C10_Witness ==
    /\ call.op = "update_lines"
    /\ plotdata[1] = <<2, 3, 2>>
    /\ call.num = 2
    /\ call.numsamples = <<1>>
    /\ Len(lines) = 3
    /\ lines[3].text # <<>>
    /\ lines[2].xy = << <<<<2, 1, 2>>>>, <<<<2, 2, 2>>>> >>
    /\ lines[2].z = << <<2, 3, 2>> >>


(***************************************************************************)
(* matlabimport.py                                                         *)
(* A str is the sequence of its characters.                                *)
(***************************************************************************)

MaxKeys == 2      \* a file holds up to MaxKeys variables
MaxUnit == 3      \* the unit indices of a file are among 1..MaxUnit
MaxTrials == 3    \* a trial file holds up to MaxTrials trials
MaxCond == 7      \* the condition codes of a trial are among 0..MaxCond

S_LFP == <<"L", "F", "P">>
S_LFPb == <<"L", "F", "P", "b">>
S_MUAe == <<"M", "U", "A", "e">>
S_NCS == <<"N", "C", "S">>
S_CSC == <<"C", "S", "C">>
S_hash == <<"h", "a", "s", "h">>
S_unit == <<"u", "n", "i", "t">>
S_microsaccades == <<"m", "i", "c", "r", "o", "s", "a", "c", "c", "a", "d", "e", "s">>
S_Align == <<"A", "l", "i", "g", "n">>
S_area == <<"a", "r", "e", "a">>
S_unitList == <<"u", "n", "i", "t", "L", "i", "s", "t">>
S_StimAlign == <<"S", "t", "i", "m", "A", "l", "i", "g", "n">>
S_align == <<"a", "l", "i", "g", "n">>
S_trialdata == <<"t", "r", "i", "a", "l", "d", "a", "t", "a">>

\* the index of the last c in s, counted from 0, or -1: s.rfind(c)
RFind(s, c) ==
    LET I == { i \in 1..Len(s) : s[i] = c }
    IN  IF I = {} THEN -1 ELSE (CHOOSE i \in I : \A j \in I : j <= i) - 1

\* the index of the first c in s, counted from 0, or -1: s.find(c)
Find(s, c) ==
    LET I == { i \in 1..Len(s) : s[i] = c }
    IN  IF I = {} THEN -1 ELSE (CHOOSE i \in I : \A j \in I : i <= j) - 1

\* sub in s
Contains(sub, s) ==
    \E i \in 0..(Len(s) - Len(sub)) : SubSeq(s, i + 1, i + Len(sub)) = sub

\* s.rstrip('/')
RECURSIVE RStripSep(_)
RStripSep(s) ==
    IF s # <<>> /\ s[Len(s)] = "/" THEN RStripSep(SubSeq(s, 1, Len(s) - 1)) ELSE s

\* os.path.split(p): <<head, tail>>, the tail being what follows the last '/'
split(p) ==
    LET i == RFind(p, "/") + 1
        head == SubSeq(p, 1, i)
        tail == SubSeq(p, i + 1, Len(p))
    IN  IF head # <<>> /\ \E k \in 1..Len(head) : head[k] # "/"
        THEN <<RStripSep(head), tail>>
        ELSE <<head, tail>>

\* a splitext that cuts at the first '.' of the name
splitext_first(p) ==
    LET sepIndex == RFind(p, "/")
        rest == SubSeq(p, sepIndex + 2, Len(p))
        dotIndex == IF Find(rest, ".") = -1 THEN -1 ELSE sepIndex + 1 + Find(rest, ".")
    IN  IF dotIndex > sepIndex
        THEN <<SubSeq(p, 1, dotIndex), SubSeq(p, dotIndex + 1, Len(p))>>
        ELSE <<p, <<>>>>

\* os.path.splitext(p): <<root, ext>>, cut at the last '.' after the last '/',
\* unless only '.' stand between the two
splitext(p) ==
    LET sepIndex == RFind(p, "/")
        dotIndex == RFind(p, ".")
    IN  IF /\ dotIndex > sepIndex
           /\ \E k \in (sepIndex + 1)..(dotIndex - 1) : p[k + 1] # "."
        THEN <<SubSeq(p, 1, dotIndex), SubSeq(p, dotIndex + 1, Len(p))>>
        ELSE <<p, <<>>>>

\* is_analog_file, the dict of load_data
is_analog_file ==
    (S_LFP :> TRUE) @@ (S_LFPb :> TRUE) @@ (S_MUAe :> TRUE) @@ (S_NCS :> TRUE)
    @@ (S_CSC :> TRUE) @@ (S_hash :> FALSE) @@ (S_unit :> FALSE)
    @@ (S_microsaccades :> FALSE)

\* a lookup that takes a missing file type for a non-analog one
LookupDefaultFalse(filetype) ==
    IF filetype \in DOMAIN is_analog_file
    THEN [raised |-> None, value |-> is_analog_file[filetype]]
    ELSE [raised |-> None, value |-> FALSE]

\* is_analog_file[filetype]: KeyError for a file type the dict does not hold
Lookup(filetype) ==
    IF filetype \in DOMAIN is_analog_file
    THEN [raised |-> None, value |-> is_analog_file[filetype]]
    ELSE [raised |-> "KeyError", value |-> FALSE]

(* A dict is the sequence of its <<key, value>> items, keys distinct, in      *)
(* insertion order.                                                           *)

Keys(d) == { d[i][1] : i \in 1..Len(d) }

Get(d, k) == d[CHOOSE i \in 1..Len(d) : d[i][1] = k][2]

\* d.update({k: v})
DictUpdate(d, k, v) ==
    IF k \in Keys(d)
    THEN [i \in 1..Len(d) |-> IF d[i][1] = k THEN <<k, v>> ELSE d[i]]
    ELSE Append(d, <<k, v>>)

\* m[0,0] of a two-dimensional array, given as the sequence of its rows
At00(m) == m[1][1]

\* the nested dict that keeps the arrays as they are in the file
UnwrapNot(v) == [TimeStamps |-> v.TimeStamps, Samples |-> v.Samples]

\* {'TimeStamps': v['TimeStamps'][0,0], 'Samples': v['Samples'][0,0]}
Unwrap(v) == [TimeStamps |-> At00(v.TimeStamps), Samples |-> At00(v.Samples)]

\* an index list left as it is in the file
MinusNothing(a) == a

\* a - 1 on an array of integers
MinusOne(a) == [i \in 1..Len(a) |-> a[i] - 1]

\* what a call leaves: how it ended (kind: return, raise, exit), the exception or
\* the exit message, the value returned, what it printed
Outcome(kind, exc, value, printed) ==
    [kind |-> kind, exc |-> exc, value |-> value, printed |-> printed]

\* validators.url(test_string): taken to accept the strings that start with a
\* scheme and a host
validators_url(test_string) ==
    /\ Len(test_string) > 7
    /\ SubSeq(test_string, 1, 7) = <<"h", "t", "t", "p", ":", "/", "/">>
    /\ test_string[8] # "/"

\* check_filename: whether the string is a URL; asserts that a local file exists
check_filename(test_string, w) ==
    LET valid_URL == validators_url(test_string)
    IN  IF ~valid_URL /\ ~w.exists
        THEN Outcome("raise", "AssertionError", FALSE, <<>>)
        ELSE Outcome("return", None, valid_URL, <<>>)

\* scipy.io.loadmat(loadfilename, variable_names=variable_names): the variables of
\* the file, all of them for None (<<>>), else those named (<<names>>)
loadmat(w, variable_names) ==
    LET keep(item) ==
            \/ variable_names = <<>>
            \/ \E j \in 1..Len(variable_names[1]) : variable_names[1][j] = item[1]
    IN  [type |-> "dict", items |-> SelectSeq(w.content, keep), chunks |-> 0]

\* requests.get(loadfilename) when it returns: a Response whose body iterates in
\* `chunks` pieces
Response(chunks) == [type |-> "Response", items |-> <<>>, chunks |-> chunks]

\* import_data: the remote branch requests the URL twice; the first request is
\* outside the try, the second within it
import_data(name, variable_names, w, net) ==
    LET filename_is_url == check_filename(name, w)
    IN  IF filename_is_url.kind = "raise" THEN filename_is_url
        ELSE IF filename_is_url.value
        THEN IF net.get1 = "ConnectionError"
             THEN Outcome("raise", "ConnectionError", Response(0), <<>>)
             ELSE IF net.get2 = "ConnectionError"
             THEN Outcome("return", None, Response(net.chunks),
                          <<"!!! Failed to download data !!!">>)
             ELSE Outcome("exit", "Loading file from URL not yet implemented!",
                          Response(0), <<>>)
        ELSE Outcome("return", None, loadmat(w, variable_names), <<>>)

\* the loop of load_data over the keys of matdata, from item i on
RECURSIVE LoadLoop(_, _, _, _)
LoadLoop(items, i, pydata, filetype) ==
    IF i > Len(items) THEN Outcome("return", None, pydata, <<>>)
    ELSE LET key == items[i][1]
             val == items[i][2]
         IN  IF Contains(S_Align, key)
             THEN LET analog == Lookup(filetype)
                  IN  IF analog.raised # None
                      THEN Outcome("raise", analog.raised, <<>>, <<>>)
                      ELSE IF analog.value
                      THEN LoadLoop(items, i + 1,
                                    DictUpdate(pydata, key, Unwrap(val)), filetype)
                      ELSE LoadLoop(items, i + 1, DictUpdate(pydata, key, val), filetype)
             ELSE IF key = S_area
             THEN LoadLoop(items, i + 1, DictUpdate(pydata, key, val), filetype)
             ELSE IF key = S_unitList
             THEN LoadLoop(items, i + 1, DictUpdate(pydata, key, MinusOne(val)), filetype)
             ELSE LoadLoop(items, i + 1, DictUpdate(pydata, key, val), filetype)

\* the file type load_data looks up: the root of the name without its directory
FileType(name) == splitext(split(name)[2])[1]

\* load_data(loadfilename, *variables2load)
load_data(name, names, w, net) ==
    LET variable_names == IF names # <<>> THEN <<names>> ELSE <<>>
        matdata == import_data(name, variable_names, w, net)
    IN  IF matdata.kind # "return" THEN [matdata EXCEPT !.value = <<>>]
        ELSE IF matdata.value.type = "Response"
        THEN \* iterating a Response yields its body in chunks of bytes, and
             \* 'Align' in <bytes> is a TypeError
             IF matdata.value.chunks = 0
             THEN Outcome("return", None, <<>>, matdata.printed)
             ELSE Outcome("raise", "TypeError", <<>>, matdata.printed)
        ELSE LoadLoop(matdata.value.items, 1, <<>>, FileType(name))


\* the columns of the trial table, in the order of the dict load_trialdata builds
Columns ==
    <<"trial_ID", "attend", "cond", "RT_evnt", "RT_EPP", "target_dim", "rf_dim",
      "position_RF", "position_out1", "position_out2", "fixbreak", "CTX_events",
      "NLX_events">>

\* numpy.zeros(n, dtype=int)
Zeros(n) == [i \in 1..n |-> 0]

\* the lists and arrays load_trialdata fills, one entry per trial
EmptyColumns(n) ==
    [CTX_events |-> [i \in 1..n |-> <<>>], NLX_events |-> [i \in 1..n |-> <<>>],
     trial_ID |-> Zeros(n), cond |-> Zeros(n), RT_evnt |-> Zeros(n),
     RT_EPP |-> Zeros(n), target_dim |-> Zeros(n), rf_dim |-> Zeros(n),
     position_RF |-> Zeros(n), position_out1 |-> Zeros(n),
     position_out2 |-> Zeros(n), fixbreak |-> Zeros(n)]

\* a loop body that takes a missing twelfth field for 0
StoreTrialLenient(cols, i, trial) ==
    IF \E k \in 0..10 : PyIndexError(trial, k)
    THEN [raised |-> "IndexError", cols |-> cols]
    ELSE [raised |-> None,
          cols |-> [cols EXCEPT !.CTX_events[i] = PyIndex(trial, 0),
                                !.NLX_events[i] = PyIndex(trial, 1),
                                !.trial_ID[i] = At00(PyIndex(trial, 2)),
                                !.cond[i] = At00(PyIndex(trial, 3)),
                                !.RT_evnt[i] = At00(PyIndex(trial, 4)),
                                !.RT_EPP[i] = At00(PyIndex(trial, 5)),
                                !.target_dim[i] = At00(PyIndex(trial, 6)),
                                !.rf_dim[i] = At00(PyIndex(trial, 7)),
                                !.position_RF[i] = At00(PyIndex(trial, 8)),
                                !.position_out1[i] = At00(PyIndex(trial, 9)),
                                !.position_out2[i] = At00(PyIndex(trial, 10)),
                                !.fixbreak[i] = IF PyIndexError(trial, 11) THEN 0
                                                ELSE At00(PyIndex(trial, 11))]]

\* the body of the loop over the trials: matdata[itrial][0] .. matdata[itrial][11],
\* IndexError at the first field the trial does not have
StoreTrial(cols, i, trial) ==
    IF \E k \in 0..11 : PyIndexError(trial, k)
    THEN [raised |-> "IndexError", cols |-> cols]
    ELSE [raised |-> None,
          cols |-> [cols EXCEPT !.CTX_events[i] = PyIndex(trial, 0),
                                !.NLX_events[i] = PyIndex(trial, 1),
                                !.trial_ID[i] = At00(PyIndex(trial, 2)),
                                !.cond[i] = At00(PyIndex(trial, 3)),
                                !.RT_evnt[i] = At00(PyIndex(trial, 4)),
                                !.RT_EPP[i] = At00(PyIndex(trial, 5)),
                                !.target_dim[i] = At00(PyIndex(trial, 6)),
                                !.rf_dim[i] = At00(PyIndex(trial, 7)),
                                !.position_RF[i] = At00(PyIndex(trial, 8)),
                                !.position_out1[i] = At00(PyIndex(trial, 9)),
                                !.position_out2[i] = At00(PyIndex(trial, 10)),
                                !.fixbreak[i] = At00(PyIndex(trial, 11))]]

\* for itrial in range(num_trial), from trial i on
RECURSIVE TrialLoop(_, _, _)
TrialLoop(matdata, i, cols) ==
    IF i > Len(matdata) THEN [raised |-> None, cols |-> cols]
    ELSE LET r == StoreTrial(cols, i, matdata[i])
         IN  IF r.raised # None THEN r ELSE TrialLoop(matdata, i + 1, r.cols)

\* arr[numpy.logical_or(cond==a, cond==b)] = v
MaskAssign(arr, cond, a, b, v) ==
    [i \in 1..Len(arr) |-> IF cond[i] = a \/ cond[i] = b THEN v ELSE arr[i]]

\* attention conditions that know one grating direction per stimulus only
AttendOneDirection(cond) ==
    LET a0 == Zeros(Len(cond))
        a1 == MaskAssign(a0, cond, 1, 1, 1)
        a2 == MaskAssign(a1, cond, 2, 2, 2)
    IN  MaskAssign(a2, cond, 3, 3, 3)

\* the attention conditions: zeros, then three masked assignments
Attend(cond) ==
    LET a0 == Zeros(Len(cond))
        a1 == MaskAssign(a0, cond, 1, 4, 1)
        a2 == MaskAssign(a1, cond, 2, 5, 2)
    IN  MaskAssign(a2, cond, 3, 6, 3)

\* pandas.DataFrame(trialdata): one row per entry of the columns
DataFrame(cols, attend) ==
    [columns |-> Columns,
     rows |-> [i \in 1..Len(attend) |->
                 [trial_ID |-> cols.trial_ID[i], attend |-> attend[i],
                  cond |-> cols.cond[i], RT_evnt |-> cols.RT_evnt[i],
                  RT_EPP |-> cols.RT_EPP[i], target_dim |-> cols.target_dim[i],
                  rf_dim |-> cols.rf_dim[i], position_RF |-> cols.position_RF[i],
                  position_out1 |-> cols.position_out1[i],
                  position_out2 |-> cols.position_out2[i],
                  fixbreak |-> cols.fixbreak[i], CTX_events |-> cols.CTX_events[i],
                  NLX_events |-> cols.NLX_events[i]]]]

NoTable == [columns |-> <<>>, rows |-> <<>>]

\* load_trialdata(loadfilename)
load_trialdata(name, w, net) ==
    IF ~w.exists THEN Outcome("raise", "AssertionError", NoTable, <<>>)
    ELSE LET imp == import_data(name, <<>>, w, net)
         IN  IF imp.kind # "return" THEN [imp EXCEPT !.value = NoTable]
             ELSE IF imp.value.type = "Response"
             THEN Outcome("raise", "TypeError", NoTable, imp.printed)
             ELSE IF S_trialdata \notin Keys(imp.value.items)
             THEN Outcome("raise", "KeyError", NoTable, <<>>)
             ELSE IF PyIndexError(Get(imp.value.items, S_trialdata), 0)
             THEN Outcome("raise", "IndexError", NoTable, <<>>)
             ELSE LET matdata == PyIndex(Get(imp.value.items, S_trialdata), 0)
                      num_trial == Len(matdata)
                      r == TrialLoop(matdata, 1, EmptyColumns(num_trial))
                  IN  IF r.raised # None
                      THEN Outcome("raise", r.raised, NoTable, <<>>)
                      ELSE Outcome("return", None,
                                   DataFrame(r.cols, Attend(r.cols.cond)), <<>>)

(***************************************************************************)
(* matlabimport.py: the inputs                                             *)
(***************************************************************************)

NoFile == [exists |-> FALSE, content |-> <<>>]
File(content) == [exists |-> TRUE, content |-> content]

\* an aligned field of a file: a struct whose fields are 1x1 cells
AlignStruct == [TimeStamps |-> << << <<0, 1>> >> >>, Samples |-> << << <<4, 5>> >> >>]
AlignStructEvents ==
    [TimeStamps |-> << << <<0, 1>> >> >>, Samples |-> << << <<4, 5>> >> >>,
     Events |-> << << <<7>> >> >>]

\* the unit indices of a file: increasing, 1-indexed
UnitLists ==
    { u \in UNION { [1..n -> 1..MaxUnit] : n \in 0..MaxUnit } :
        \A i \in 1..(Len(u) - 1) : u[i] < u[i + 1] }

RecKeys == {S_unitList, S_area, S_StimAlign, S_align}

ValuesOf(k) ==
    IF k = S_unitList THEN UnitLists
    ELSE IF k = S_area THEN {<<"V", "1">>, <<"V", "4">>}
    ELSE IF k = S_StimAlign THEN {AlignStruct, AlignStructEvents}
    ELSE {AlignStruct}

\* the files of up to n variables
RECURSIVE Recordings(_)
Recordings(n) ==
    IF n = 0 THEN {<<>>}
    ELSE LET P == Recordings(n - 1)
         IN  P \cup UNION { UNION { { Append(r, <<k, v>>) : v \in ValuesOf(k) }
                                    : k \in RecKeys \ Keys(r) }
                            : r \in { p \in P : Len(p) = n - 1 } }

\* one trial of a trial file: two event arrays, then 1x1 arrays; a trial of 11
\* fields lacks fixbreak
TrialRecord(id, cond, nfields) ==
    [k \in 1..nfields |->
        IF k = 1 THEN << <<100 + id>> >>
        ELSE IF k = 2 THEN << <<200 + id>> >>
        ELSE IF k = 3 THEN << <<id>> >>
        ELSE IF k = 4 THEN << <<cond>> >>
        ELSE << <<10 * k>> >>]

TrialKinds == { <<c, 12>> : c \in 0..MaxCond } \cup { <<1, 11>> }

\* the condition codes of the example in the documentation
ExampleConds == <<1, 2, 3, 4, 5, 6, 7>>

TrialInputs ==
    UNION { [1..n -> TrialKinds] : n \in 0..MaxTrials }
    \cup { [i \in 1..Len(ExampleConds) |-> <<ExampleConds[i], 12>>] }

\* the file whose 'trialdata' is the 1 x n array of the trials
TrialFile(ts) ==
    << <<S_trialdata, << [i \in 1..Len(ts) |-> TrialRecord(i, ts[i][1], ts[i][2])] >> >> >>

Dirs == {<<>>, <<"d", ".", "x", "/">>}
Stems == {S_LFP, S_LFPb, S_MUAe, S_NCS, S_CSC, S_hash, S_unit, S_microsaccades,
          <<"l", "f", "p">>, <<"Q">>, <<>>}
Exts1 == {<<>>, <<".", "m", "a", "t">>}
Exts2 == {<<>>, <<".", "g", "z">>}

LocalNames ==
    { d \o s \o e1 \o e2 : d \in Dirs, s \in Stems,
                           e1 \in Exts1, e2 \in Exts2 }
    \ Dirs

UrlNames == {<<"h", "t", "t", "p", ":", "/", "/", "h", "/", "L", "F", "P", ".", "m", "a", "t">>, <<"h", "t", "t", "p", ":", "/", "/", "h", "/", "h", "a", "s", "h">>}

TrialNames == {<<"t", "r", "i", "a", "l", "d", "a", "t", "a", ".", "m", "a", "t">>}

VariableSets == {<<>>, <<S_unitList, S_StimAlign>>}

\* what the two requests of the remote branch meet
Nets ==
    [get1 : {"ok", "ConnectionError"}, get2 : {"ok", "ConnectionError"},
     chunks : {0, 1}]

NoNet == [get1 |-> "ok", get2 |-> "ok", chunks |-> 0]

NoResult ==
    [op |-> "none", net |-> NoNet, out |-> Outcome("none", None, <<>>, <<>>)]

IdleAnim ==
    /\ plotdata = <<>>
    /\ lines = <<>>
    /\ call = NoCall
    /\ trace = <<>>

\* one call on one input: a local name and the file it names (or none), a URL,
\* or a trial file
Init ==
    /\ IdleAnim
    /\ pc = "start"
    /\ result = NoResult
    /\ \/ /\ loadfilename \in LocalNames
          /\ variables2load \in VariableSets
          /\ world \in {NoFile} \cup { File(r) : r \in Recordings(MaxKeys) }
       \/ /\ loadfilename \in UrlNames
          /\ variables2load = <<>>
          /\ world = NoFile
       \/ /\ loadfilename \in TrialNames
          /\ variables2load = <<>>
          /\ world \in { File(TrialFile(ts)) : ts \in TrialInputs }

\* the requests that matter to a call on this name
NetsFor(name) == IF validators_url(name) THEN Nets ELSE {NoNet}

LoadData ==
    /\ pc = "start"
    /\ \E net \in NetsFor(loadfilename) :
        result' = [op |-> "load_data", net |-> net,
                   out |-> load_data(loadfilename, variables2load, world, net)]
    /\ pc' = "done"
    /\ UNCHANGED <<loadfilename, variables2load, world>>
    /\ UNCHANGED animvars

LoadTrialdata ==
    /\ pc = "start"
    /\ \E net \in NetsFor(loadfilename) :
        result' = [op |-> "load_trialdata", net |-> net,
                   out |-> load_trialdata(loadfilename, world, net)]
    /\ pc' = "done"
    /\ UNCHANGED <<loadfilename, variables2load, world>>
    /\ UNCHANGED animvars

Next ==
    \/ LoadData
    \/ LoadTrialdata

Spec == Init /\ [][Next]_vars


(***************************************************************************)
(* matlabimport.py: the claims                                             *)
(***************************************************************************)

Done(op) == pc = "done" /\ result.op = op

\* the call found a local file and read it
ReadLocal == world.exists /\ loadfilename \notin UrlNames

\* the raw record: the variables of the file that the call asked for
Raw ==
    LET asked(item) ==
            \/ variables2load = <<>>
            \/ \E j \in 1..Len(variables2load) : variables2load[j] = item[1]
    IN  SelectSeq(world.content, asked)

\* of the keys of the inputs, 'StimAlign' is the one that contains 'Align'
HasAlign == S_StimAlign \in Keys(Raw)

\* the name without its directory: what follows the last '/'
Basename(p) ==
    LET n == CHOOSE k \in 0..Len(p) :
                 /\ \A j \in (Len(p) - k + 1)..Len(p) : p[j] # "/"
                 /\ (k = Len(p) \/ p[Len(p) - k] = "/")
    IN  SubSeq(p, Len(p) - n + 1, Len(p))

\* the name up to its first '.'
BeforeFirstDot(n) ==
    LET D == { i \in 1..Len(n) : n[i] = "." }
    IN  IF D = {} THEN n
        ELSE SubSeq(n, 1, (CHOOSE i \in D : \A j \in D : i <= j) - 1)

\* the name up to its last '.', a '.' that only '.' precede not counting
BeforeLastDot(n) ==
    LET D == { i \in 1..Len(n) :
                 /\ n[i] = "."
                 /\ \A j \in (i + 1)..Len(n) : n[j] # "."
                 /\ \E j \in 1..(i - 1) : n[j] # "." }
    IN  IF D = {} THEN n ELSE SubSeq(n, 1, (CHOOSE i \in D : TRUE) - 1)

AnalogCategories == {S_LFP, S_LFPb, S_MUAe, S_NCS, S_CSC}
NonAnalogCategories == {S_hash, S_unit, S_microsaccades}
Categories == AnalogCategories \cup NonAnalogCategories

\* whether load_data handled the file of category cat as the table says: a
\* category the table lacks raises KeyError, an analog one has its aligned field
\* restructured, a non-analog one has it copied
HandledAsCategory(cat) ==
    /\ result.out.kind = "raise" <=> cat \notin Categories
    /\ result.out.kind = "return" =>
          (Get(result.out.value, S_StimAlign) # Get(Raw, S_StimAlign)
              <=> cat \in AnalogCategories)

\* C1 (as claimed): load_data on a URL whose first request is answered never gets
\* a value back from import_data: the process ends with the 'not yet implemented'
\* message on every path.
C1_RemoteAlwaysExits ==
    (Done("load_data") /\ loadfilename \in UrlNames /\ result.net.get1 = "ok")
        => /\ result.out.kind = "exit"
           /\ result.out.exc = "Loading file from URL not yet implemented!"

\* C4 (as claimed): the category that decides how an 'Align' key is handled is
\* the name, without its directory, up to its FIRST '.'.
C4_CategoryBeforeFirstDot ==
    (Done("load_data") /\ ReadLocal /\ HasAlign)
        => HandledAsCategory(BeforeFirstDot(Basename(loadfilename)))

\* C4 (amended): the category that decides how an 'Align' key is handled is the
\* name, without its directory, up to its LAST '.', matched exactly against the
\* table.
C4_CategoryBeforeLastDot ==
    (Done("load_data") /\ ReadLocal /\ HasAlign)
        => HandledAsCategory(BeforeLastDot(Basename(loadfilename)))

\* C4 witness: 'd.x/LFP.mat.gz' is looked up as 'LFP.mat', which the table lacks.
C4_Witness ==
    /\ Done("load_data")
    /\ ReadLocal
    /\ HasAlign
    /\ loadfilename = <<"d", ".", "x", "/", "L", "F", "P", ".", "m", "a", "t", ".", "g", "z">>
    /\ result.out.kind = "raise"
    /\ result.out.exc = "KeyError"

\* C5: load_data on a record with an 'Align' key, from a file whose category
\* (up to the first or up to the last '.') is none of the eight of the table,
\* raises KeyError and returns no mapping.
C5_UnknownCategoryRaises ==
    (/\ Done("load_data")
     /\ ReadLocal
     /\ HasAlign
     /\ \/ BeforeLastDot(Basename(loadfilename)) \notin Categories
        \/ BeforeFirstDot(Basename(loadfilename)) \notin Categories)
        => /\ result.out.kind = "raise"
           /\ result.out.exc = "KeyError"
           /\ result.out.value = <<>>

\* C5 witness: 'Q.mat' with unitList, then StimAlign: KeyError after unitList
\* was processed.
C5_Witness ==
    /\ Done("load_data")
    /\ loadfilename = <<"Q", ".", "m", "a", "t">>
    /\ world.exists
    /\ Len(Raw) = 2
    /\ Raw[1][1] = S_unitList
    /\ Raw[2][1] = S_StimAlign
    /\ result.out.kind = "raise"
    /\ result.out.exc = "KeyError"

\* C6: the output entry of an 'Align' key is, for an analog category, a mapping
\* with exactly TimeStamps and Samples, each the [0,0] element of the raw
\* sub-field, and for a non-analog category the raw value itself.
C6_AlignEntry ==
    (Done("load_data") /\ ReadLocal /\ HasAlign /\ result.out.kind = "return")
        => LET cat == BeforeLastDot(Basename(loadfilename))
               raw == Get(Raw, S_StimAlign)
               out == Get(result.out.value, S_StimAlign)
           IN  /\ cat \in AnalogCategories =>
                    /\ DOMAIN out = {"TimeStamps", "Samples"}
                    /\ raw.TimeStamps = << <<out.TimeStamps>> >>
                    /\ raw.Samples = << <<out.Samples>> >>
               /\ cat \in NonAnalogCategories => out = raw

\* C6 witness: an analog file whose aligned field has a third sub-field.
C6_Witness ==
    /\ Done("load_data")
    /\ loadfilename = <<"L", "F", "P", ".", "m", "a", "t">>
    /\ world.exists
    /\ HasAlign
    /\ Get(Raw, S_StimAlign) = AlignStructEvents
    /\ result.out.kind = "return"
    /\ Get(result.out.value, S_StimAlign) = [TimeStamps |-> <<0, 1>>, Samples |-> <<4, 5>>]

\* C7: for a raw record without 'Align' keys the output has the keys of the raw
\* record, in its order, each value the raw value, but unitList, whose every
\* element is the raw element minus 1.
C7_KeysKeptUnitListShifted ==
    (Done("load_data") /\ ReadLocal /\ ~HasAlign /\ result.out.kind = "return")
        => LET out == result.out.value
           IN  /\ Len(out) = Len(Raw)
               /\ \A i \in 1..Len(Raw) :
                    /\ out[i][1] = Raw[i][1]
                    /\ IF Raw[i][1] = S_unitList
                       THEN /\ Len(out[i][2]) = Len(Raw[i][2])
                            /\ \A j \in 1..Len(Raw[i][2]) : out[i][2][j] + 1 = Raw[i][2][j]
                       ELSE out[i][2] = Raw[i][2]

\* C7 witness: {unitList: [1,2,3], area: 'V1'} yields {unitList: [0,1,2], area: 'V1'}.
C7_Witness ==
    /\ Done("load_data")
    /\ world.exists
    /\ Raw = << <<S_unitList, <<1, 2, 3>>>>, <<S_area, <<"V", "1">>>> >>
    /\ result.out.kind = "return"
    /\ result.out.value = << <<S_unitList, <<0, 1, 2>>>>, <<S_area, <<"V", "1">>>> >>

\* the trials of the file, as read: the first row of its 'trialdata'
InputTrials == Get(world.content, S_trialdata)[1]

HasTrials == world.exists /\ S_trialdata \in Keys(world.content)

\* C8: in the table of load_trialdata every row's cond is the trial's condition
\* code and its attend is 1 for cond in {1,4}, 2 for {2,5}, 3 for {3,6}, else 0.
C8_AttendFromCond ==
    (Done("load_trialdata") /\ result.out.kind = "return")
        => \A i \in 1..Len(result.out.value.rows) :
              LET row == result.out.value.rows[i]
              IN  /\ row.cond = InputTrials[i][4][1][1]
                  /\ row.attend = (IF row.cond \in {1, 4} THEN 1
                                   ELSE IF row.cond \in {2, 5} THEN 2
                                   ELSE IF row.cond \in {3, 6} THEN 3
                                   ELSE 0)

\* C8 witness: condition codes [1,2,3,4,5,6,7] yield attend [1,2,3,1,2,3,0].
C8_Witness ==
    /\ Done("load_trialdata")
    /\ result.out.kind = "return"
    /\ Len(result.out.value.rows) = 7
    /\ [i \in 1..7 |-> result.out.value.rows[i].cond] = <<1, 2, 3, 4, 5, 6, 7>>
    /\ [i \in 1..7 |-> result.out.value.rows[i].attend] = <<1, 2, 3, 1, 2, 3, 0>>

\* C9: load_trialdata returns a table with one row per trial of the input, and
\* raises IndexError, returning no table, when any trial has fewer than 12 fields.
C9_RowPerTrialOrNoTable ==
    (Done("load_trialdata") /\ HasTrials)
        => IF \E i \in 1..Len(InputTrials) : Len(InputTrials[i]) < 12
           THEN /\ result.out.kind = "raise"
                /\ result.out.exc = "IndexError"
                /\ result.out.value = NoTable
           ELSE /\ result.out.kind = "return"
                /\ Len(result.out.value.rows) = Len(InputTrials)

\* C9 witness: three trials, the last one of 11 fields: no table.
C9_Witness ==
    /\ Done("load_trialdata")
    /\ HasTrials
    /\ Len(InputTrials) = 3
    /\ Len(InputTrials[1]) = 12
    /\ Len(InputTrials[2]) = 12
    /\ Len(InputTrials[3]) = 11
    /\ result.out.kind = "raise"
    /\ result.out.value = NoTable

====
